---------------------------- MODULE Spec2Model ----------------------------
(***************************************************************************)
(* Content-and-image synchronisation pipeline of spacezine.                *)
(*                                                                         *)
(*   scripts/sync-data.js      syncData                                    *)
(*   src/lib/wordpress.js      downloadImage, fetchWordPressPosts,         *)
(*                             transformWordPressPost, getWordPressPosts   *)
(*   scripts/sync-images.js    extractDominantColor,                       *)
(*     (src/unnamed/part_000)  downloadAndConvertImage, fetchWordPressPosts*)
(*                             syncImages, in two variants                 *)
(*                                                                         *)
(* Text (URLs, markup, file names) is modelled as TLA+ strings, and the    *)
(* regular expressions of the code are evaluated character by character.   *)
(***************************************************************************)
EXTENDS Integers, Sequences, FiniteSets, TLC

(***************************************************************************)
(* Bounds of the model.                                                    *)
(***************************************************************************)
MaxPosts == 2
MaxRuns == 1
MaxFrags == 3

(***************************************************************************)
(* JavaScript values that are not strings.                                 *)
(***************************************************************************)
\* null / undefined
Null == "<null>"
\* a truthy value that is not a string (an object, a number)
NonString == "<object>"
\* src/data/posts.json: not there, or holding the posts written last
NoFile == [exists |-> FALSE, posts |-> << >>]
PostsJson(list) == [exists |-> TRUE, posts |-> list]

(***************************************************************************)
(* String primitives.                                                      *)
(***************************************************************************)
Min(a, b) == IF a < b THEN a ELSE b

\* F applied to the value of v: v is evaluated once, whatever F does with it
With(v, F(_)) == CHOOSE r \in {F(x) : x \in {v}} : TRUE

\* the character of s at position i (1-based)
CharAt(s, i) == SubSeq(s, i, i)

\* s.substring(i - 1): the text from position i to the end
From(s, i) == IF i > Len(s) THEN "" ELSE SubSeq(s, i, Len(s))

\* the text of s before position i
Upto(s, i) == IF i <= 1 THEN "" ELSE SubSeq(s, 1, Min(i - 1, Len(s)))

UpperLetters == "ABCDEFGHIJKLMNOPQRSTUVWXYZ"
LowerLetters == "abcdefghijklmnopqrstuvwxyz"

LowerOf == [c \in {CharAt(UpperLetters, i) : i \in 1..26} |->
              CharAt(LowerLetters, CHOOSE i \in 1..26 : CharAt(UpperLetters, i) = c)]

\* case folding of one character, as the i flag of a RegExp applies it
LowerChar(c) == IF c \in DOMAIN LowerOf THEN LowerOf[c] ELSE c

\* String.prototype.toLowerCase (by halves, to keep the recursion shallow)
RECURSIVE ToLowerCase(_)
ToLowerCase(s0) ==
  With(s0, LAMBDA s :
    IF Len(s) = 0 THEN ""
    ELSE IF Len(s) = 1 THEN LowerChar(s)
    ELSE With(Len(s) \div 2, LAMBDA h :
           ToLowerCase(SubSeq(s, 1, h)) \o ToLowerCase(SubSeq(s, h + 1, Len(s)))))

\* the least element of a non-empty set of numbers
Least(S) == CHOOSE j \in S : \A k \in S : j <= k
Greatest(S) == CHOOSE j \in S : \A k \in S : j >= k

\* s has the text p at position i
HasAt(s, i, p) ==
  /\ i >= 1
  /\ i + Len(p) - 1 <= Len(s)
  /\ SubSeq(s, i, i + Len(p) - 1) = p

\* the same, ignoring case (p is written in lower case)
HasAtCI(s, i, p) ==
  /\ i >= 1
  /\ i + Len(p) - 1 <= Len(s)
  /\ Len(p) > 0 => LowerChar(CharAt(s, i)) = CharAt(p, 1)
  /\ ToLowerCase(SubSeq(s, i, i + Len(p) - 1)) = p

\* String.prototype.indexOf, 1-based, 0 when absent
IndexFrom(s, p, i) ==
  With({j \in i..(Len(s) - Len(p) + 1) : HasAt(s, j, p)},
       LAMBDA hits : IF hits = {} THEN 0 ELSE Least(hits))

IndexOf(s, p) == IndexFrom(s, p, 1)

\* String.prototype.includes
Includes(s, p) == IndexOf(s, p) # 0

IncludesCI(s, p) == Includes(ToLowerCase(s), p)

EndsWith(s, p) == Len(p) <= Len(s) /\ HasAt(s, Len(s) - Len(p) + 1, p)

\* position of the last occurrence of the character c in s, 0 when absent
LastIndexOf(s, c) ==
  With({j \in 1..Len(s) : CharAt(s, j) = c},
       LAMBDA hits : IF hits = {} THEN 0 ELSE Greatest(hits))

\* a replace that takes the last occurrence of the pattern
ReplaceLast(s, p, r) ==
  With({j \in 1..Len(s) : HasAt(s, j, p)},
       LAMBDA hits : IF hits = {} THEN s
                     ELSE Upto(s, Greatest(hits)) \o r
                          \o From(s, Greatest(hits) + Len(p)))

\* String.prototype.replace(pattern, replacement) with a string pattern:
\* the first occurrence only.  (The texts of the model hold no "$", so the
\* replacement string has no special replacement patterns.)
ReplaceFirst(s, p, r) ==
  With(IndexOf(s, p),
       LAMBDA i : IF i = 0 THEN s
                  ELSE Upto(s, i) \o r \o From(s, i + Len(p)))


(***************************************************************************)
(* URLs and file names.                                                    *)
(***************************************************************************)
\* new URL(u) throws a TypeError unless u is absolute; the model's URLs are
\* http(s) URLs or texts with no scheme at all
IsAbsoluteUrl(u) == HasAtCI(u, 1, "http://") \/ HasAtCI(u, 1, "https://")

\* the text of an absolute URL after "scheme://"
AfterScheme(u) == From(u, IndexOf(u, "://") + 3)

\* position of the first character of s that is one of cs, Len(s) + 1 if none
FirstOf(s, cs, i) ==
  With({j \in i..Len(s) : CharAt(s, j) \in cs},
       LAMBDA hits : IF hits = {} THEN Len(s) + 1 ELSE Least(hits))

\* new URL(u).host
Host(u) ==
  LET r == AfterScheme(u)
  IN  ToLowerCase(Upto(r, FirstOf(r, {"/", "?", "#"}, 1)))

\* new URL(u).pathname: the path without query string and fragment
Pathname(u) ==
  LET r == AfterScheme(u)
      a == FirstOf(r, {"/", "?", "#"}, 1)
      b == FirstOf(r, {"?", "#"}, 1)
  IN  IF a > Len(r) \/ CharAt(r, a) # "/" THEN "/"
      ELSE SubSeq(r, a, b - 1)

RECURSIVE TrimSlashes(_)
TrimSlashes(p) ==
  IF Len(p) > 1 /\ CharAt(p, Len(p)) = "/" THEN TrimSlashes(Upto(p, Len(p)))
  ELSE p

\* path.basename(p)
Basename(p) ==
  LET t == TrimSlashes(p)
  IN  IF t = "/" THEN "" ELSE From(t, LastIndexOf(t, "/") + 1)

\* fileName.replace(/\.(jpg|jpeg|png)$/i, '.webp')
WebpFileName(fileName) ==
  LET l == ToLowerCase(fileName)
      n == Len(fileName)
  IN  IF EndsWith(l, ".jpeg") THEN Upto(fileName, n - 4) \o ".webp"
      ELSE IF EndsWith(l, ".jpg") \/ EndsWith(l, ".png")
           THEN Upto(fileName, n - 3) \o ".webp"
      ELSE fileName

\* the guard shared by downloadImage and downloadAndConvertImage:
\* !(!imageUrl || (!imageUrl.includes('.local') && !imageUrl.includes('localhost')))
IsEligible(imageUrl) ==
  /\ imageUrl # Null
  /\ imageUrl # ""
  /\ (Includes(imageUrl, ".local") \/ Includes(imageUrl, "localhost"))

\* `/images/${fileName}`
ImagesPath(fileName) == "/images/" \o fileName

\* what the resolvers derive from a URL before any I/O
Target(imageUrl) ==
  LET eligible == IsEligible(imageUrl)
      absolute == eligible /\ IsAbsoluteUrl(imageUrl)
      fileName == IF absolute THEN Basename(Pathname(imageUrl)) ELSE Null
  IN  [eligible |-> eligible, absolute |-> absolute, fileName |-> fileName,
       webpFileName |-> IF absolute THEN WebpFileName(fileName) ELSE Null]

(***************************************************************************)
(* imageRegex =                                                            *)
(*   /src="(https?:\/\/[^"]*\.(jpg|jpeg|png|gif|webp|JPG|...))"/gi         *)
(***************************************************************************)
RasterExtensions == {"jpg", "jpeg", "png", "gif", "webp"}

Quote == "\""

\* [^"]*\.(ext) matched against the whole of r
EndsInRasterExtension(r) == \E e \in RasterExtensions : EndsWith(r, "." \o e)

\* the URL of a match: https?:\/\/[^"]*\.(ext), c in lower case
IsRasterUrl(c) ==
  \/ HasAt(c, 1, "http://") /\ EndsInRasterExtension(From(c, 8))
  \/ HasAt(c, 1, "https://") /\ EndsInRasterExtension(From(c, 9))

\* the position of the closing quote of a match of imageRegex that starts
\* at position i of s, 0 when there is no match at i
ImageMatchEnd(s, i) ==
  IF ~HasAtCI(s, i, "src=\"") THEN 0
  ELSE With(IndexFrom(s, Quote, i + 5),
            LAMBDA q : IF q = 0 THEN 0
                       ELSE IF With(ToLowerCase(SubSeq(s, i + 5, q - 1)), IsRasterUrl)
                       THEN q ELSE 0)

\* Array.from(content.matchAll(imageRegex)): the matches from left to right,
\* each a pair <<fullMatch, imageUrl>>
RECURSIVE MatchAllFrom(_, _)
MatchAllFrom(s, i) ==
  With({j \in i..Len(s) : ImageMatchEnd(s, j) # 0},
       LAMBDA hits :
         IF hits = {} THEN << >>
         ELSE With(Least(hits), LAMBDA m :
              With(ImageMatchEnd(s, m), LAMBDA q :
                << <<SubSeq(s, m, q), SubSeq(s, m + 5, q - 1)>> >>
                \o MatchAllFrom(s, q + 1))))

MatchAllImages(content) == With(content, LAMBDA s : MatchAllFrom(s, 1))

(***************************************************************************)
(* content.replace(/\s*NAME="[^"]*"/gi, '')                                *)
(***************************************************************************)
IsSpace(c) == c \in {" ", "\t", "\n", "\r"}

RECURSIVE SkipSpaces(_, _)
SkipSpaces(s, i) ==
  IF i <= Len(s) /\ IsSpace(CharAt(s, i)) THEN SkipSpaces(s, i + 1) ELSE i

\* the position of the closing quote of a match of /\s*NAME="[^"]*"/i that
\* starts at position i of s, 0 when there is no match at i
AttrMatchEnd(s, name, i) ==
  With(SkipSpaces(s, i),
       LAMBDA k : IF HasAtCI(s, k, name \o "=\"")
                  THEN IndexFrom(s, Quote, k + Len(name) + 2)
                  ELSE 0)

\* the global replace: the leftmost match from i on is cut out, and the scan
\* goes on after it
RECURSIVE RemoveAttrFrom(_, _, _)
RemoveAttrFrom(s, name, i) ==
  With({j \in i..Len(s) : AttrMatchEnd(s, name, j) # 0},
       LAMBDA hits :
         IF hits = {} THEN From(s, i)
         ELSE With(Least(hits), LAMBDA m :
              With(AttrMatchEnd(s, name, m) + 1, LAMBDA next :
                SubSeq(s, i, m - 1) \o RemoveAttrFrom(s, name, next))))

RemoveAttr(content, name) == With(content, LAMBDA s : RemoveAttrFrom(s, name, 1))

\* the four removals, in the order of the code
StripAttributes(content) ==
  RemoveAttr(RemoveAttr(RemoveAttr(RemoveAttr(content, "srcset"), "sizes"),
                        "width"), "height")

\* one substitution of the loop over the matches: a null (falsy) local path
\* gives an empty src
SubstituteSrc(content, fullMatch, localPath) ==
  With(content, LAMBDA s :
    IF localPath # Null /\ localPath # ""
    THEN ReplaceFirst(s, fullMatch, "src=\"" \o localPath \o "\"")
    ELSE ReplaceFirst(s, fullMatch, "src=\"\""))

(***************************************************************************)
(* extractDominantColor: '#' and the three channels in hexadecimal.        *)
(***************************************************************************)
HexDigits == "0123456789abcdef"

\* x.toString(16) for 0 <= x <= 255
ToString16(x) ==
  IF x < 16 THEN CharAt(HexDigits, x + 1)
  ELSE CharAt(HexDigits, (x \div 16) + 1) \o CharAt(HexDigits, (x % 16) + 1)

\* the conversion with no padding: "return hex"
Pad2NoPad(hex) == hex

\* hex.length === 1 ? '0' + hex : hex
Pad2(hex) == IF Len(hex) = 1 THEN "0" \o hex ELSE hex

HexOfRgb(rgb) == "#" \o Pad2(ToString16(rgb[1])) \o Pad2(ToString16(rgb[2]))
                     \o Pad2(ToString16(rgb[3]))

\* extractDominantColor(imagePath): sharp's stats() gives the dominant
\* channels rgb, or throws and the catch returns null
ExtractDominantColor(rgb, threw) == IF threw THEN Null ELSE HexOfRgb(rgb)

\* the dominant colours sharp (or node-vibrant) may report for an image
SampleRgb == { <<0, 9, 171>> }

\* what a colour extraction can return: a hex colour, or null when it fails
ColorResults == {HexOfRgb(rgb) : rgb \in SampleRgb} \cup {Null}

(***************************************************************************)
(* The content source: WordPress posts as the GraphQL query returns them.  *)
(***************************************************************************)
\* process.env.WORDPRESS_URL: the private content origin of the model
WORDPRESS_URL == "http://site.local"

UrlRocket == "http://site.local/img/rocket.jpg"
UrlPublic == "https://cdn.example.com/pic.png"
UrlPublicLocalhostPath == "https://cdn.example.com/localhost/a.jpg"
UrlGif == "http://site.local/b.gif"
UrlPublicImages == "https://cdn.example.com/images/pic.png"
UrlOldRocket == "http://site.local/old/rocket.jpg"

Catalog == <<
  [slug |-> "rocket", hero |-> UrlRocket, categories |-> <<"Space">>,
   content |-> "<a href=\"http://site.local/p\"><img src=\"http://site.local/img/rocket.jpg\" width=\"1\"></a>"],
  [slug |-> "cdn", hero |-> UrlPublicLocalhostPath, categories |-> << >>,
   content |-> Null],
  [slug |-> "odd", hero |-> UrlPublic, categories |-> <<"News">>,
   content |-> NonString],
  [slug |-> "gif", hero |-> UrlGif, categories |-> <<"News", "space">>,
   content |-> "<img src=\"http://site.local/a.png\" srcset=\"http://site.local/a.png 2x\">"],
  [slug |-> "press", hero |-> UrlPublicImages, categories |-> << >>,
   content |-> "<img src=\"http://site.local/old/rocket.jpg\">"],
  [slug |-> "note", hero |-> Null, categories |-> << >>,
   content |-> "<img src=\"http://site.local/a.png\">"]
>>

\* the lists of distinct posts the source may hold
RECURSIVE PostLists(_)
PostLists(n) ==
  IF n = 0 THEN { << >> }
  ELSE LET shorter == PostLists(n - 1)
       IN  shorter \cup
           { Append(l, Catalog[j]) : l \in {x \in shorter : Len(x) = n - 1},
                                     j \in 1..Len(Catalog) }

Distinct(l) == \A a, b \in 1..Len(l) : a # b => l[a].slug # l[b].slug

Sources == {l \in PostLists(MaxPosts) : Distinct(l)}

(***************************************************************************)
(* Markup for the rewriting of a body: every concatenation of at most      *)
(* MaxFrags of these pieces.                                               *)
(***************************************************************************)
Fragments == <<
  "<img src=\"http://site.local/a.jpg\"",
  "<img src=\"https://cdn.example.com/pic.png\"",
  "<img src=\"http://site.local/a.jpg?v=1\"",
  "<img src='http://site.local/c.png'",
  "<a href=\"http://site.local/p\">",
  " srcset=\"http://site.local/a.jpg 2x\"",
  " sizes=\"9\"",
  " width=\"1\"",
  " height=\"2\"",
  " height='4'",
  " data-width=\"5\"",
  " wid",
  "th=\"3\"",
  ">"
>>

RECURSIVE Bodies(_)
Bodies(n) ==
  IF n = 0 THEN {""}
  ELSE LET shorter == Bodies(n - 1)
       IN  shorter \cup {b \o Fragments[j] : b \in shorter, j \in 1..Len(Fragments)}

(***************************************************************************)
(* The URLs of the model, with what the resolvers derive from each (a      *)
(* table of Target, computed once).                                        *)
(***************************************************************************)
UrlsIn(content) ==
  LET images == MatchAllImages(content)
  IN  {images[j][2] : j \in 1..Len(images)}

KnownUrls ==
  {Catalog[j].hero : j \in 1..Len(Catalog)}
  \cup UNION {UrlsIn(Catalog[j].content) : j \in 1..Len(Catalog)}
  \cup UNION {UrlsIn(Fragments[j] \o Quote) : j \in 1..Len(Fragments)}

TargetTable == [u \in KnownUrls |-> Target(u)]

TargetOf(imageUrl) ==
  IF imageUrl \in KnownUrls THEN TargetTable[imageUrl] ELSE Target(imageUrl)

\* a JavaScript truthiness test of a string-or-null value
Truthy(v) == v # Null /\ v # ""

(***************************************************************************)
(* The cache tree: public/images, dist/images, public/images/meta, and     *)
(* the directories that exist.  A file's content is the URL its bytes came *)
(* from and the format they are in.                                        *)
(***************************************************************************)
PublicImagesDir == "public/images"
DistImagesDir == "dist/images"
MetaDir == "public/images/meta"
DataDir == "src/data"

EmptyFs == [pub |-> << >>, dist |-> << >>, meta |-> << >>, dirs |-> {}]

\* fs.writeFileSync(path.join(dir, name), data)
WriteFile(files, name, data) == (name :> data) @@ files

\* fs.unlinkSync(path.join(dir, name))
Unlink(files, name) == [n \in (DOMAIN files) \ {name} |-> files[n]]

\* fs.existsSync(path.join(dir, name))
Exists(files, name) == name \in DOMAIN files

\* fs.mkdirSync(dir, { recursive: true }): the directory and its parents
Mkdir(dirs, dir) ==
  dirs \cup {dir} \cup (IF dir = MetaDir THEN {PublicImagesDir} ELSE {})

RawBytes(url) == [src |-> url, fmt |-> "raw"]
WebpBytes(url) == [src |-> url, fmt |-> "webp"]

\* JSON.stringify({ dominantColor }, null, 2)
Sidecar(color) == [dominantColor |-> color]

\* `${webpFileName}.json`
SidecarName(webpFileName) == webpFileName \o ".json"

(***************************************************************************)
(* What the environment does to one resolve call: the answer to the fetch, *)
(* whether a directory can be created, the exit of the two cwebp commands, *)
(* and the colour found.                                                   *)
(***************************************************************************)
FetchOutcomes == {"ok", "status", "throw"}

\* (an answer that is never looked at is not varied: after a failed fetch
\* nothing else happens, a failed cwebp ends the conversion)
Outcomes ==
  {o \in [fetch : FetchOutcomes, mkdir : BOOLEAN, cwebp1 : BOOLEAN,
          cwebp2 : BOOLEAN, color : ColorResults] :
     /\ o.fetch # "ok" => (o.mkdir /\ o.cwebp1 /\ o.cwebp2 /\ o.color = Null)
     /\ ~o.mkdir => (o.cwebp1 /\ o.cwebp2)
     /\ ~o.cwebp1 => (o.cwebp2 /\ o.color = Null)
     /\ ~o.cwebp2 => o.color = Null}

Result(localPath, dominantColor) ==
  [localPath |-> localPath, dominantColor |-> dominantColor]

\* { localPath: null, dominantColor: null }
NullResult == Result(Null, Null)

\* what a resolve call did: its result, the cache tree after it, the number
\* of fetches and cwebp invocations it made, whether it touched the tree
Effect(res, fs, fetches, transcodes, wrote, fetchOk, cwebpFailed) ==
  [res |-> res, fs |-> fs, fetches |-> fetches, transcodes |-> transcodes,
   wrote |-> wrote, fetchOk |-> fetchOk, cwebpFailed |-> cwebpFailed,
   mkdirFailed |-> FALSE]

\* the same, for a call that ended in its catch because fs.mkdirSync threw
MkdirThrew(e) == [e EXCEPT !.mkdirFailed = TRUE]

(***************************************************************************)
(* downloadAndConvertImage(imageUrl) of sync-images.js, as a function of   *)
(* the cache tree and of what the environment does (o).  variant 1 is the  *)
(* script with colour extraction and sidecars, variant 2 the one without   *)
(* (its result is the bare path: the colour of a variant 2 result is       *)
(* always Null).                                                           *)
(*                                                                         *)
(* A failing mkdirSync fails at the first directory that is missing.       *)
(***************************************************************************)
\* the directories the fresh-download path creates on demand
CacheDirs(variant) ==
  IF variant = 1 THEN {PublicImagesDir, DistImagesDir, MetaDir}
  ELSE {PublicImagesDir, DistImagesDir}

\* the same path with the sidecar written whatever the colour is
CacheHitAlwaysWrites(webpFileName, fs, o, variant) ==
  LET dominantColor == IF variant = 1 THEN o.color ELSE Null
      path == ImagesPath(webpFileName)
  IN  IF variant # 1
      THEN Effect(Result(path, Null), fs, 0, 0, FALSE, FALSE, FALSE)
      ELSE IF MetaDir \notin fs.dirs /\ ~o.mkdir
      THEN MkdirThrew(Effect(NullResult, fs, 0, 0, FALSE, FALSE, FALSE))
      ELSE Effect(Result(path, dominantColor),
                  [fs EXCEPT !.dirs = Mkdir(@, MetaDir),
                             !.meta = WriteFile(@, SidecarName(webpFileName),
                                                Sidecar(dominantColor))],
                  0, 0, TRUE, FALSE, FALSE)

\* "if (fs.existsSync(webpPublicPath))": the cached file is returned
CacheHit(webpFileName, fs, o, variant) ==
  LET dominantColor == IF variant = 1 THEN o.color ELSE Null
      path == ImagesPath(webpFileName)
  IN  IF dominantColor = Null
      THEN Effect(Result(path, Null), fs, 0, 0, FALSE, FALSE, FALSE)
      ELSE IF MetaDir \notin fs.dirs /\ ~o.mkdir
      THEN \* mkdirSync throws: the outer catch
           MkdirThrew(Effect(NullResult, fs, 0, 0, FALSE, FALSE, FALSE))
      ELSE Effect(Result(path, dominantColor),
                  [fs EXCEPT !.dirs = Mkdir(@, MetaDir),
                             !.meta = WriteFile(@, SidecarName(webpFileName),
                                                Sidecar(dominantColor))],
                  0, 0, TRUE, FALSE, FALSE)

\* the same path without the inner try/catch around the conversion: a failing
\* cwebp would land in the outer catch and give the null result
FreshDownloadOuterCatch(imageUrl, fileName, webpFileName, fs, o, variant) ==
  LET saved == [fs EXCEPT !.dirs = @ \cup CacheDirs(variant),
                          !.pub = WriteFile(@, fileName, RawBytes(imageUrl)),
                          !.dist = WriteFile(@, fileName, RawBytes(imageUrl))]
      converted == [saved EXCEPT
                      !.pub = Unlink(WriteFile(@, webpFileName, WebpBytes(imageUrl)),
                                     fileName),
                      !.dist = Unlink(WriteFile(@, webpFileName, WebpBytes(imageUrl)),
                                      fileName)]
  IN  IF (CacheDirs(variant) \ fs.dirs) # {} /\ ~o.mkdir
      THEN MkdirThrew(Effect(NullResult, fs, 1, 0, FALSE, TRUE, FALSE))
      ELSE IF ~o.cwebp1
      THEN Effect(NullResult, saved, 1, 1, TRUE, TRUE, TRUE)
      ELSE IF ~o.cwebp2
      THEN Effect(NullResult, saved, 1, 2, TRUE, TRUE, TRUE)
      ELSE Effect(Result(ImagesPath(webpFileName), Null), converted,
                  1, 2, TRUE, TRUE, FALSE)

\* the path after "const response = await fetch(imageUrl)" answered ok
FreshDownload(imageUrl, fileName, webpFileName, fs, o, variant) ==
  LET saved == [fs EXCEPT !.dirs = @ \cup CacheDirs(variant),
                          !.pub = WriteFile(@, fileName, RawBytes(imageUrl)),
                          !.dist = WriteFile(@, fileName, RawBytes(imageUrl))]
      first == [saved EXCEPT !.pub = WriteFile(@, webpFileName, WebpBytes(imageUrl))]
      second == [first EXCEPT !.dist = WriteFile(@, webpFileName, WebpBytes(imageUrl))]
      removed == [second EXCEPT !.pub = Unlink(@, fileName),
                                !.dist = Unlink(@, fileName)]
      \* sharp cannot read a file that is not there
      dominantColor == IF variant = 1 /\ Exists(removed.pub, webpFileName)
                       THEN o.color ELSE Null
      withMeta == IF variant = 1
                  THEN [removed EXCEPT !.meta = WriteFile(@, SidecarName(webpFileName),
                                                          Sidecar(dominantColor))]
                  ELSE removed
  IN  IF (CacheDirs(variant) \ fs.dirs) # {} /\ ~o.mkdir
      THEN MkdirThrew(Effect(NullResult, fs, 1, 0, FALSE, TRUE, FALSE))
      ELSE IF ~o.cwebp1
      THEN Effect(Result(ImagesPath(fileName), Null), saved, 1, 1, TRUE, TRUE, TRUE)
      ELSE IF ~o.cwebp2
      THEN Effect(Result(ImagesPath(fileName), Null), first, 1, 2, TRUE, TRUE, TRUE)
      ELSE Effect(Result(ImagesPath(webpFileName), dominantColor), withMeta,
                  1, 2, TRUE, TRUE, FALSE)

DownloadAndConvertImageMkdirFirst(imageUrl, fs, o, variant) ==
  LET t == TargetOf(imageUrl)
  IN  IF ~t.eligible
      THEN Effect(Result(imageUrl, Null), fs, 0, 0, FALSE, FALSE, FALSE)
      ELSE IF ~t.absolute
      THEN Effect(NullResult, fs, 0, 0, FALSE, FALSE, FALSE)
      ELSE IF Exists(fs.pub, t.webpFileName)
      THEN CacheHit(t.webpFileName, fs, o, variant)
      ELSE IF o.fetch # "ok"
      THEN Effect(NullResult, [fs EXCEPT !.dirs = @ \cup CacheDirs(variant)],
                  1, 0, FALSE, FALSE, FALSE)
      ELSE FreshDownload(imageUrl, t.fileName, t.webpFileName, fs, o, variant)

DownloadAndConvertImage(imageUrl, fs, o, variant) ==
  LET t == TargetOf(imageUrl)
  IN  IF ~t.eligible
      THEN Effect(Result(imageUrl, Null), fs, 0, 0, FALSE, FALSE, FALSE)
      ELSE IF ~t.absolute
      THEN \* new URL(imageUrl) throws: the outer catch
           Effect(NullResult, fs, 0, 0, FALSE, FALSE, FALSE)
      ELSE IF Exists(fs.pub, t.webpFileName)
      THEN CacheHit(t.webpFileName, fs, o, variant)
      ELSE IF o.fetch # "ok"
      THEN Effect(NullResult, fs, 1, 0, FALSE, FALSE, FALSE)
      ELSE FreshDownload(imageUrl, t.fileName, t.webpFileName, fs, o, variant)

(***************************************************************************)
(* transformWordPressPost(wpPost) of wordpress.js, as a coroutine: it runs *)
(* until its next await on a fetch or on a palette, and is resumed with    *)
(* the result of the downloadImage call it was waiting for.  (The await on *)
(* a downloadImage call that returns its argument at once, for a URL that  *)
(* is not eligible, does no I/O and is taken in the same step.  The        *)
(* excerpt, the dimensions and the taxonomy are copied and not modelled.)  *)
(***************************************************************************)
NewCoroutine(wpPost) ==
  [post |-> wpPost, pc |-> "start", target |-> "none", url |-> Null,
   fileName |-> Null, hero |-> NullResult, content |-> wpPost.content,
   matches |-> << >>, k |-> 0, results |-> << >>]

\* the loop "for (const [fullMatch, imageUrl] of images)" from its k-th turn
\* on, then the four removals and the return
RECURSIVE InlineLoop(_)
InlineLoop(co0) ==
  With(co0, LAMBDA c :
    IF c.k > Len(c.matches)
    THEN [c EXCEPT !.pc = "done", !.target = "none", !.url = Null,
                   !.content = StripAttributes(c.content)]
    ELSE With(c.matches[c.k][2], LAMBDA imageUrl :
           IF TargetOf(imageUrl).eligible
           THEN [c EXCEPT !.pc = "fetch", !.target = "inline", !.url = imageUrl]
           ELSE InlineLoop([c EXCEPT
                  !.content = SubstituteSrc(@, c.matches[c.k][1], imageUrl),
                  !.results = Append(@, <<imageUrl, imageUrl>>),
                  !.k = @ + 1])))

\* from "let content = wpPost.content" on; matchAll is not a function of a
\* value that is not a string, and the TypeError rejects the promise
AfterHero(co0) ==
  With(co0, LAMBDA c :
    IF ~Truthy(c.post.content)
    THEN [c EXCEPT !.pc = "done", !.target = "none", !.url = Null]
    ELSE IF c.post.content = NonString
    THEN [c EXCEPT !.pc = "threw", !.target = "none", !.url = Null]
    ELSE InlineLoop([c EXCEPT !.matches = MatchAllImages(c.content), !.k = 1]))

\* the start of transformWordPressPost, up to its first await
Begin(wpPost) ==
  LET c == NewCoroutine(wpPost)
  IN  IF ~Truthy(wpPost.hero) THEN AfterHero(c)
      ELSE IF TargetOf(wpPost.hero).eligible
      THEN [c EXCEPT !.pc = "fetch", !.target = "hero", !.url = wpPost.hero]
      ELSE AfterHero([c EXCEPT !.hero = Result(wpPost.hero, Null)])

\* the awaited downloadImage call returned res
Resume(co0, res) ==
  With(co0, LAMBDA c :
    IF c.target = "hero" THEN AfterHero([c EXCEPT !.hero = res])
    ELSE InlineLoop([c EXCEPT
           !.content = SubstituteSrc(@, c.matches[c.k][1], res.localPath),
           !.results = Append(@, <<c.matches[c.k][2], res.localPath>>),
           !.k = @ + 1]))

\* the object transformWordPressPost returns
Normalized(c) ==
  [slug |-> c.post.slug, heroImage |-> c.hero.localPath,
   dominantColor |-> c.hero.dominantColor,
   categories |-> c.post.categories, content |-> c.content]

\* downloadImage after "response.ok": the bytes are written to both roots
\* under the base name of the URL; ok is FALSE when new URL or mkdirSync
\* throws (the catch returns the null result)
DownloadImageSave(imageUrl, fs, mkdirOk) ==
  LET fileName == TargetOf(imageUrl).fileName
      missing == {PublicImagesDir, DistImagesDir} \ fs.dirs
  IN  IF ~TargetOf(imageUrl).absolute \/ (missing # {} /\ ~mkdirOk)
      THEN [ok |-> FALSE, fs |-> fs, fileName |-> Null,
            mkdirFailed |-> TargetOf(imageUrl).absolute]
      ELSE [ok |-> TRUE, fileName |-> fileName, mkdirFailed |-> FALSE,
            fs |-> [fs EXCEPT !.dirs = @ \cup {PublicImagesDir, DistImagesDir},
                              !.pub = WriteFile(@, fileName, RawBytes(imageUrl)),
                              !.dist = WriteFile(@, fileName, RawBytes(imageUrl))]]

(***************************************************************************)
(* State.                                                                  *)
(***************************************************************************)
VARIABLES
  source,     \* the published posts the content source holds
  variant,    \* which sync-images.js is installed (1 or 2)
  fs,         \* the cache tree
  artifact,   \* src/data/posts.json: NoFile, or PostsJson of the list written
  runsLeft,   \* script invocations the operator may still make
  run,        \* the script that runs: "none", "syncData", "syncImages"
  pc,         \* where the run is
  exitCode,   \* "none" while it runs, then "0" or "1"
  posts,      \* what fetchWordPressPosts returned
  co,         \* sync-data: one transformWordPressPost coroutine per post
  idx,        \* sync-images: the post of the for loop
  matches,    \* sync-images: the inline images of that post
  k,          \* sync-images: the inline image of the inner loop
  stats,      \* sync-images: processed, skipped, failed
  ret,        \* the resolve call that returned in the last step, if any
  lastRes,    \* per function and URL, the result of its last call
  rw,         \* body rewriting applied twice: the pass, and pass 1's output
  hist,       \* of the run: the query's answer, whether the query raised,
              \* whether a mkdirSync threw
  feed,       \* what the rendering read interface returned last
  probe       \* extractDominantColor: the channels given, the string returned

vars == <<source, variant, fs, artifact, runsLeft, run, pc, exitCode, posts,
          co, idx, matches, k, stats, ret, lastRes, rw, hist, feed, probe>>

NoHist == [query |-> "none", raised |-> FALSE, mkdirFailed |-> FALSE]

NoFeed == [by |-> "none"]

NoProbe == [rgb |-> << >>, hex |-> Null]

NoCall == [fn |-> "none"]

NoStats == [processed |-> 0, skipped |-> 0, failed |-> 0]

NoRewrite == [pass |-> 0, input |-> Null, first |-> Null]

\* the record of a resolve call fn(url) with effect e
Call(fn, url, e) ==
  [fn |-> fn, url |-> url, res |-> e.res, fetches |-> e.fetches,
   transcodes |-> e.transcodes, wrote |-> e.wrote, fetchOk |-> e.fetchOk,
   cwebpFailed |-> e.cwebpFailed, mkdirFailed |-> e.mkdirFailed,
   again |-> <<fn, url>> \in DOMAIN lastRes,
   prev |-> IF <<fn, url>> \in DOMAIN lastRes THEN lastRes[<<fn, url>>]
            ELSE NullResult]

Remember(fn, url, res) == (<<fn, url>> :> res) @@ lastRes

Init ==
  /\ source \in Sources
  /\ variant \in {1, 2}
  /\ fs = EmptyFs
  /\ artifact = NoFile
  /\ runsLeft = MaxRuns
  /\ run = "none"
  /\ pc = "idle"
  /\ exitCode = "none"
  /\ posts = << >>
  /\ co = << >>
  /\ idx = 0
  /\ matches = << >>
  /\ k = 0
  /\ stats = NoStats
  /\ ret = NoCall
  /\ lastRes = << >>
  /\ rw = NoRewrite
  /\ hist = NoHist
  /\ feed = NoFeed
  /\ probe = NoProbe

(***************************************************************************)
(* fetchWordPressPosts (both copies): a transport error, a non-success     *)
(* status and an errors payload are caught and give [], otherwise          *)
(* data?.posts?.nodes || [].                                               *)
(***************************************************************************)
QueryOutcomes == {"ok", "throw", "status", "errors"}

\* fetchWordPressPosts with no try around its body: fetch's rejection and the
\* two "throw new Error" leave the function
FetchWordPressPostsNoCatch(outcome) ==
  IF outcome = "ok"
  THEN [raised |-> FALSE, posts |-> source]
  ELSE [raised |-> TRUE, posts |-> << >>]

\* the whole body is in a try: fetch rejecting, "!response.ok" and
\* "data.errors" all throw into the catch, which logs and returns []
FetchWordPressPosts(outcome) ==
  IF outcome = "ok"
  THEN [raised |-> FALSE, posts |-> source]
  ELSE [raised |-> FALSE, posts |-> << >>]

\* what the run remembers of the query
Queried(outcome, answer) ==
  [hist EXCEPT !.query = outcome, !.raised = answer.raised]

\* what the run remembers of a call that ended because mkdirSync threw
MkdirSeen(failed) == [hist EXCEPT !.mkdirFailed = @ \/ failed]

\* process.exit(code), or the end of the script
Exit(code) ==
  /\ pc' = "exited"
  /\ exitCode' = code

\* the operator starts a script: its first await is the posts query
Start(script) ==
  /\ pc \in {"idle", "exited"}
  /\ runsLeft > 0
  /\ runsLeft' = runsLeft - 1
  /\ run' = script
  /\ pc' = "query"
  /\ exitCode' = "none"
  /\ posts' = << >>
  /\ co' = << >>
  /\ idx' = 0
  /\ matches' = << >>
  /\ k' = 0
  /\ stats' = NoStats
  /\ ret' = NoCall
  /\ hist' = NoHist
  /\ UNCHANGED <<source, variant, feed, probe,
                 fs, artifact, lastRes, rw>>

(***************************************************************************)
(* sync-data.js: syncData and getWordPressPosts.                           *)
(***************************************************************************)
SD_Start == Start("syncData")

\* getWordPressPosts: the query answers, and wpPosts.map(transformWordPressPost)
\* starts every transformation, each up to its first await
SD_Posts ==
  /\ run = "syncData"
  /\ pc = "query"
  /\ \E outcome \in QueryOutcomes :
       \E answer \in {FetchWordPressPosts(outcome)} :
           /\ hist' = Queried(outcome, answer)
           /\ posts' = answer.posts
           /\ IF answer.raised
              THEN \* the rejection reaches syncData's catch
                   Exit("1") /\ UNCHANGED co
              ELSE /\ co' = [i \in 1..Len(answer.posts) |->
                               Begin(answer.posts[i])]
                   /\ pc' = "transforming"
                   /\ UNCHANGED exitCode
  /\ ret' = NoCall
  /\ UNCHANGED <<source, variant, feed, probe,
                 fs, artifact, runsLeft, run, idx,
                 matches, k, stats, lastRes, rw>>

Transforming == run \in {"syncData", "rewrite", "rss"} /\ pc = "transforming"

\* a rejected transformation rejects Promise.all before any other callback runs
NoneThrew == \A i \in 1..Len(co) : co[i].pc # "threw"

\* downloadImage with no try around its fetch: a fetch that throws rejects
\* the transformation that awaits it
DI_FetchDoneNoCatch(i) ==
  /\ Transforming
  /\ NoneThrew
  /\ co[i].pc = "fetch"
  /\ \E answer \in FetchOutcomes, mkdirOk \in BOOLEAN :
       /\ (answer # "ok" => mkdirOk)
       /\ \E url \in {co[i].url} :
          \E saved \in {DownloadImageSave(url, fs, mkdirOk)} :
              /\ hist' = MkdirSeen(answer = "ok" /\ saved.mkdirFailed)
              /\ IF answer = "ok" /\ saved.ok
                 THEN /\ fs' = saved.fs
                      /\ co' = [co EXCEPT ![i].pc = "palette",
                                          ![i].fileName = saved.fileName]
                      /\ ret' = NoCall
                      /\ UNCHANGED lastRes
                 ELSE /\ co' = IF answer = "throw"
                             THEN [co EXCEPT ![i].pc = "threw"]
                             ELSE [co EXCEPT ![i] = Resume(@, NullResult)]
                      /\ ret' = Call("downloadImage", url,
                                     [Effect(NullResult, fs, 1, 0, FALSE,
                                             answer = "ok", FALSE)
                                      EXCEPT !.mkdirFailed =
                                        answer = "ok" /\ saved.mkdirFailed])
                      /\ lastRes' = Remember("downloadImage", url, NullResult)
                      /\ UNCHANGED fs
  /\ UNCHANGED <<source, variant, feed, probe,
                 artifact, runsLeft, run, pc, exitCode, posts,
                 idx, matches, k, stats, rw>>

\* downloadImage of coroutine i: the fetch answers
DI_FetchDone(i) ==
  /\ Transforming
  /\ NoneThrew
  /\ co[i].pc = "fetch"
  /\ \E answer \in FetchOutcomes, mkdirOk \in BOOLEAN :
       /\ (answer # "ok" => mkdirOk)
       /\ \E url \in {co[i].url} :
          \E saved \in {DownloadImageSave(url, fs, mkdirOk)} :
              /\ hist' = MkdirSeen(answer = "ok" /\ saved.mkdirFailed)
              /\ IF answer = "ok" /\ saved.ok
                 THEN /\ fs' = saved.fs
                      /\ co' = [co EXCEPT ![i].pc = "palette",
                                          ![i].fileName = saved.fileName]
                      /\ ret' = NoCall
                      /\ UNCHANGED lastRes
                 ELSE /\ co' = [co EXCEPT ![i] = Resume(@, NullResult)]
                      /\ ret' = Call("downloadImage", url,
                                     [Effect(NullResult, fs, 1, 0, FALSE,
                                             answer = "ok", FALSE)
                                      EXCEPT !.mkdirFailed =
                                        answer = "ok" /\ saved.mkdirFailed])
                      /\ lastRes' = Remember("downloadImage", url, NullResult)
                      /\ UNCHANGED fs
  /\ UNCHANGED <<source, variant, feed, probe,
                 artifact, runsLeft, run, pc, exitCode, posts,
                 idx, matches, k, stats, rw>>

\* downloadImage of coroutine i: Vibrant answers, or throws (a null colour)
DI_PaletteDone(i) ==
  /\ Transforming
  /\ NoneThrew
  /\ co[i].pc = "palette"
  /\ \E dominantColor \in ColorResults, url \in {co[i].url} :
       \E res \in {Result(ImagesPath(co[i].fileName), dominantColor)} :
           /\ co' = [co EXCEPT ![i] = Resume(@, res)]
           /\ ret' = Call("downloadImage", url,
                          Effect(res, fs, 1, 0, TRUE, TRUE, FALSE))
           /\ lastRes' = Remember("downloadImage", url, res)
  /\ UNCHANGED <<source, variant, feed, probe, hist,
                 fs, artifact, runsLeft, run, pc, exitCode,
                 posts, idx, matches, k, stats, rw>>

\* syncData's catch: console.error and process.exit(1)
SD_Reject ==
  /\ run = "syncData"
  /\ pc = "transforming"
  /\ ~NoneThrew
  /\ Exit("1")
  /\ ret' = NoCall
  /\ UNCHANGED <<source, variant, feed, probe, hist,
                 fs, artifact, runsLeft, run, posts, co, idx,
                 matches, k, stats, lastRes, rw>>

\* syncData writing posts.json without awaiting Promise.all: whatever the
\* transformations have reached is what gets written
SD_WriteEarly ==
  /\ run = "syncData"
  /\ pc = "transforming"
  /\ \E mkdirOk \in BOOLEAN :
       IF DataDir \notin fs.dirs /\ ~mkdirOk
       THEN /\ Exit("1")
            /\ hist' = MkdirSeen(TRUE)
            /\ UNCHANGED <<fs, artifact>>
       ELSE /\ fs' = [fs EXCEPT !.dirs = @ \cup {DataDir}]
            /\ UNCHANGED hist
            /\ artifact' = PostsJson([i \in 1..Len(co) |-> Normalized(co[i])])
            /\ Exit("0")
  /\ ret' = NoCall
  /\ UNCHANGED <<source, variant, feed, probe,
                 runsLeft, run, posts, co, idx, matches, k,
                 stats, lastRes, rw>>

\* Promise.all resolved: the data directory is made if missing (a failing
\* mkdirSync lands in the catch), posts.json is written, the script ends
SD_Write ==
  /\ run = "syncData"
  /\ pc = "transforming"
  /\ \A i \in 1..Len(co) : co[i].pc = "done"
  /\ \E mkdirOk \in BOOLEAN :
       IF DataDir \notin fs.dirs /\ ~mkdirOk
       THEN /\ Exit("1")
            /\ hist' = MkdirSeen(TRUE)
            /\ UNCHANGED <<fs, artifact>>
       ELSE /\ fs' = [fs EXCEPT !.dirs = @ \cup {DataDir}]
            /\ UNCHANGED hist
            /\ artifact' = PostsJson([i \in 1..Len(co) |-> Normalized(co[i])])
            /\ Exit("0")
  /\ ret' = NoCall
  /\ UNCHANGED <<source, variant, feed, probe,
                 runsLeft, run, posts, co, idx, matches, k,
                 stats, lastRes, rw>>

(***************************************************************************)
(* sync-images.js: syncImages.  The script is sequential: one resolve call *)
(* at a time, each awaited before the loop goes on.                        *)
(***************************************************************************)
SI_Start == Start("syncImages")

\* "if (posts.length === 0) process.exit(1)"
SI_Posts ==
  /\ run = "syncImages"
  /\ pc = "query"
  /\ \E outcome \in QueryOutcomes :
       \E answer \in {FetchWordPressPosts(outcome)} :
       \E wpPosts \in {answer.posts} :
           /\ hist' = Queried(outcome, answer)
           /\ posts' = wpPosts
           /\ IF answer.raised \/ Len(wpPosts) = 0
              THEN Exit("1") /\ UNCHANGED idx
              ELSE pc' = "hero" /\ idx' = 1 /\ UNCHANGED exitCode
  /\ ret' = NoCall
  /\ UNCHANGED <<source, variant, feed, probe,
                 fs, artifact, runsLeft, run, co, matches, k,
                 stats, lastRes, rw>>

\* the counter a featured-image result falls in:
\*   result && result.localPath && result.localPath.includes('/images/')
TallySuccessOnly(st, res) ==
  IF Truthy(res.localPath) /\ Includes(res.localPath, "/images/")
  THEN [st EXCEPT !.processed = @ + 1]
  ELSE IF Truthy(res.localPath)
  THEN [st EXCEPT !.skipped = @ + 1]
  ELSE st

Tally(st, res) ==
  IF Truthy(res.localPath) /\ Includes(res.localPath, "/images/")
  THEN [st EXCEPT !.processed = @ + 1]
  ELSE IF Truthy(res.localPath)
  THEN [st EXCEPT !.skipped = @ + 1]
  ELSE [st EXCEPT !.failed = @ + 1]

\* the featured image of posts[idx]
SI_Hero ==
  /\ run = "syncImages"
  /\ pc = "hero"
  /\ idx <= Len(posts)
  /\ LET heroImage == posts[idx].hero
     IN  IF Truthy(heroImage)
         THEN \E o \in Outcomes :
                \E e \in {DownloadAndConvertImage(heroImage, fs, o, variant)} :
                    /\ fs' = e.fs
                    /\ hist' = MkdirSeen(e.mkdirFailed)
                    /\ stats' = Tally(stats, e.res)
                    /\ ret' = Call("downloadAndConvertImage", heroImage, e)
                    /\ lastRes' = Remember("downloadAndConvertImage", heroImage, e.res)
         ELSE /\ ret' = NoCall
              /\ UNCHANGED <<fs, stats, lastRes, hist>>
  /\ pc' = "scan"
  /\ UNCHANGED <<source, variant, feed, probe,
                 artifact, runsLeft, run, exitCode, posts, co,
                 idx, matches, k, rw>>

\* "if (post.content)": the inline images are collected; matchAll of a value
\* that is not a string throws, and syncImages().catch exits with 1
SI_Scan ==
  /\ run = "syncImages"
  /\ pc = "scan"
  /\ \E content \in {posts[idx].content} :
     \E images \in {IF Truthy(content) /\ content # NonString
                    THEN MatchAllImages(content) ELSE << >>} :
         IF content = NonString
         THEN Exit("1") /\ UNCHANGED <<idx, matches, k>>
         ELSE IF Len(images) = 0
         THEN /\ pc' = "hero"
              /\ idx' = idx + 1
              /\ UNCHANGED <<exitCode, matches, k>>
         ELSE /\ pc' = "inline"
              /\ matches' = images
              /\ k' = 1
              /\ UNCHANGED <<exitCode, idx>>
  /\ ret' = NoCall
  /\ UNCHANGED <<source, variant, feed, probe, hist,
                 fs, artifact, runsLeft, run, posts, co, stats,
                 lastRes, rw>>

\* "for (const [, imageUrl] of images) await downloadAndConvertImage(imageUrl)"
SI_Inline ==
  /\ run = "syncImages"
  /\ pc = "inline"
  /\ \E o \in Outcomes, imageUrl \in {matches[k][2]} :
       \E e \in {DownloadAndConvertImage(imageUrl, fs, o, variant)} :
           /\ fs' = e.fs
           /\ hist' = MkdirSeen(e.mkdirFailed)
           /\ ret' = Call("downloadAndConvertImage", imageUrl, e)
           /\ lastRes' = Remember("downloadAndConvertImage", imageUrl, e.res)
  /\ IF k < Len(matches)
     THEN k' = k + 1 /\ UNCHANGED <<pc, idx>>
     ELSE pc' = "hero" /\ idx' = idx + 1 /\ UNCHANGED k
  /\ UNCHANGED <<source, variant, feed, probe,
                 artifact, runsLeft, run, exitCode, posts, co,
                 matches, stats, rw>>

\* the loop is over: the statistics are logged and the script ends
SI_Finish ==
  /\ run = "syncImages"
  /\ pc = "hero"
  /\ idx > Len(posts)
  /\ Exit("0")
  /\ ret' = NoCall
  /\ UNCHANGED <<source, variant, feed, probe, hist,
                 fs, artifact, runsLeft, run, posts, co, idx,
                 matches, k, stats, lastRes, rw>>

Next ==
  \/ SD_Start
  \/ SD_Posts
  \/ \E i \in 1..Len(co) : DI_FetchDone(i)
  \/ \E i \in 1..Len(co) : DI_PaletteDone(i)
  \/ SD_Reject
  \/ SD_Write
  \/ SI_Start
  \/ SI_Posts
  \/ SI_Hero
  \/ SI_Scan
  \/ SI_Inline
  \/ SI_Finish

Spec == Init /\ [][Next]_vars

\* every fetch, cwebp and palette call returns, and every callback that is
\* ready runs
SpecLive == Spec /\ WF_vars(Next)

(***************************************************************************)
(* The two scripts run one after the other, in either order, against a     *)
(* source of one post and the cache tree the first run left.               *)
(***************************************************************************)
MaxSequelRuns == 2

InitSequel ==
  /\ source \in {l \in Sources : Len(l) = 1}
  /\ variant \in {1, 2}
  /\ fs = EmptyFs
  /\ artifact = NoFile
  /\ runsLeft = MaxSequelRuns
  /\ run = "none"
  /\ pc = "idle"
  /\ exitCode = "none"
  /\ posts = << >>
  /\ co = << >>
  /\ idx = 0
  /\ matches = << >>
  /\ k = 0
  /\ stats = NoStats
  /\ ret = NoCall
  /\ lastRes = << >>
  /\ rw = NoRewrite
  /\ hist = NoHist
  /\ feed = NoFeed
  /\ probe = NoProbe

SpecSequel == InitSequel /\ [][Next]_vars

(***************************************************************************)
(* The body rewriting of transformWordPressPost applied to a body and then *)
(* to its own output, for every body of Bodies(MaxFrags) and every answer  *)
(* of the environment.                                                     *)
(***************************************************************************)
BodyPost(body) ==
  [slug |-> "body", hero |-> Null, categories |-> << >>, content |-> body]

InitRewrite ==
  /\ \E body \in Bodies(MaxFrags) :
       /\ posts = << BodyPost(body) >>
       /\ co = << Begin(BodyPost(body)) >>
       /\ rw = [pass |-> 1, input |-> body, first |-> Null]
  /\ source = << >>
  /\ variant = 1
  /\ fs = EmptyFs
  /\ artifact = NoFile
  /\ runsLeft = 0
  /\ run = "rewrite"
  /\ pc = "transforming"
  /\ exitCode = "none"
  /\ idx = 0
  /\ matches = << >>
  /\ k = 0
  /\ stats = NoStats
  /\ ret = NoCall
  /\ lastRes = << >>
  /\ hist = NoHist
  /\ feed = NoFeed
  /\ probe = NoProbe

\* transformWordPressPost is called on the record it returned
RW_Reapply ==
  /\ run = "rewrite"
  /\ rw.pass = 1
  /\ co[1].pc = "done"
  /\ rw' = [rw EXCEPT !.pass = 2, !.first = co[1].content]
  /\ posts' = << BodyPost(co[1].content) >>
  /\ co' = << Begin(BodyPost(co[1].content)) >>
  /\ ret' = NoCall
  /\ UNCHANGED <<source, variant, feed, probe, hist,
                 fs, artifact, runsLeft, run, pc, exitCode,
                 idx, matches, k, stats, lastRes>>

NextRewrite ==
  \/ DI_FetchDone(1)
  \/ DI_PaletteDone(1)
  \/ RW_Reapply

SpecRewrite == InitRewrite /\ [][NextRewrite]_vars

(***************************************************************************)
(* extractDominantColor applied to every value of one channel (sharp       *)
(* reports 8-bit channels) beside small and large values of the other two, *)
(* and the downloadAndConvertImage call that returns what it returned.     *)
(***************************************************************************)
Channels == 0..255

ProbeRgb ==
  UNION { {<<x, y, z>>, <<y, x, z>>, <<y, z, x>>} :
            x \in Channels, y \in {9, 171}, z \in {9, 171} }

InitColor ==
  /\ probe \in {[rgb |-> rgb, hex |-> Null] : rgb \in ProbeRgb}
  /\ source = << >>
  /\ variant = 1
  /\ fs = EmptyFs
  /\ artifact = NoFile
  /\ runsLeft = 0
  /\ run = "color"
  /\ pc = "stats"
  /\ exitCode = "none"
  /\ posts = << >>
  /\ co = << >>
  /\ idx = 0
  /\ matches = << >>
  /\ k = 0
  /\ stats = NoStats
  /\ ret = NoCall
  /\ lastRes = << >>
  /\ rw = NoRewrite
  /\ hist = NoHist
  /\ feed = NoFeed

\* extractDominantColor returns
EDC_Return ==
  /\ run = "color"
  /\ pc = "stats"
  /\ \E threw \in BOOLEAN :
       probe' = [probe EXCEPT !.hex = ExtractDominantColor(probe.rgb, threw)]
  /\ pc' = "color"
  /\ UNCHANGED <<source, variant, feed, fs, artifact, runsLeft, run, exitCode,
                 posts, co, idx, matches, k, stats, ret, lastRes, rw, hist>>

\* the fresh download of an eligible image that made the extraction: the
\* fetch, the directories and both conversions went well
EDC_Resolve ==
  /\ run = "color"
  /\ pc = "color"
  /\ \E o \in {[fetch |-> "ok", mkdir |-> TRUE, cwebp1 |-> TRUE,
                 cwebp2 |-> TRUE, color |-> probe.hex]} :
       \E e \in {DownloadAndConvertImage(UrlRocket, fs, o, variant)} :
           /\ fs' = e.fs
           /\ ret' = Call("downloadAndConvertImage", UrlRocket, e)
           /\ lastRes' = Remember("downloadAndConvertImage", UrlRocket, e.res)
  /\ pc' = "returned"
  /\ UNCHANGED <<source, variant, feed, probe, artifact, runsLeft, run,
                 exitCode, posts, co, idx, matches, k, stats, rw, hist>>

NextColor ==
  \/ EDC_Return
  \/ EDC_Resolve

SpecColor == InitColor /\ [][NextColor]_vars

(***************************************************************************)
(* The site build: the read interface of posts-static.js over posts.json,  *)
(* and the two GET handlers of the RSS feed, the one that reads            *)
(* posts-static.js and the one that calls getWordPressPosts.  posts.json   *)
(* is what an earlier sync-data run wrote, here one in which no image      *)
(* could be fetched; the source holds what it holds now.                   *)
(***************************************************************************)
MaxRenderPosts == 1

\* transformWordPressPost when every downloadImage call returns null
RECURSIVE RunOffline(_)
RunOffline(co0) ==
  With(co0, LAMBDA c :
    IF c.pc = "fetch" THEN RunOffline(Resume(c, NullResult)) ELSE c)

\* the posts.json files of such runs
Artifacts ==
  { PostsJson([i \in 1..Len(l) |-> Normalized(RunOffline(Begin(l[i])))]) :
      l \in {x \in Sources : \A i \in 1..Len(x) : x[i].content # NonString} }

InitRender ==
  /\ source \in {l \in Sources : Len(l) <= MaxRenderPosts}
  /\ artifact \in Artifacts
  /\ variant = 1
  /\ fs = EmptyFs
  /\ runsLeft = 0
  /\ run = "render"
  /\ pc = "idle"
  /\ exitCode = "none"
  /\ posts = << >>
  /\ co = << >>
  /\ idx = 0
  /\ matches = << >>
  /\ k = 0
  /\ stats = NoStats
  /\ ret = NoCall
  /\ lastRes = << >>
  /\ rw = NoRewrite
  /\ hist = NoHist
  /\ feed = NoFeed
  /\ probe = NoProbe

\* getStaticPosts(): the records of posts.json (pubDate becomes a Date)
GetStaticPosts == artifact.posts

\* getStaticPostsByCategory(category)
GetStaticPostsByCategory(category) ==
  SelectSeq(GetStaticPosts,
            LAMBDA post : \E j \in 1..Len(post.categories) :
                            ToLowerCase(post.categories[j]) = ToLowerCase(category))

\* getStaticPostBySlug(slug)
GetStaticPostBySlug(slug) ==
  IF \E i \in 1..Len(GetStaticPosts) : GetStaticPosts[i].slug = slug
  THEN GetStaticPosts[CHOOSE i \in 1..Len(GetStaticPosts) :
                        /\ GetStaticPosts[i].slug = slug
                        /\ \A j \in 1..(i - 1) : GetStaticPosts[j].slug # slug]
  ELSE Null

\* items: posts.map(post => ({ ..., link: `/archive/${post.slug}/` }))
Items(list) == [i \in 1..Len(list) |-> "/archive/" \o list[i].slug \o "/"]

\* the slugs and categories a page asks for
AskedSlugs == {"rocket", "press", "nope"}
AskedCategories == {"SPACE", "news"}

\* a page calls the read interface
Render ==
  /\ run = "render"
  /\ pc = "idle"
  /\ \/ feed' = [by |-> "getStaticPosts", result |-> GetStaticPosts]
     \/ \E category \in AskedCategories :
          feed' = [by |-> "getStaticPostsByCategory", asked |-> category,
                   result |-> GetStaticPostsByCategory(category)]
     \/ \E slug \in AskedSlugs :
          feed' = [by |-> "getStaticPostBySlug", asked |-> slug,
                   result |-> GetStaticPostBySlug(slug)]
  /\ UNCHANGED <<source, variant, probe, fs, artifact, runsLeft, run, pc,
                 exitCode, posts, co, idx, matches, k, stats, ret, lastRes,
                 rw, hist>>

\* GET of rss.xml.js: the feed of getStaticPosts()
GET_Static ==
  /\ run = "render"
  /\ pc = "idle"
  /\ feed' = [by |-> "GET", result |-> Items(GetStaticPosts)]
  /\ UNCHANGED <<source, variant, probe, fs, artifact, runsLeft, run, pc,
                 exitCode, posts, co, idx, matches, k, stats, ret, lastRes,
                 rw, hist>>

\* GET calling "await getWordPressPosts()": the request starts with the
\* posts query
GET_Live_Start ==
  /\ run = "render"
  /\ pc = "idle"
  /\ run' = "rss"
  /\ pc' = "query"
  /\ feed' = NoFeed
  /\ hist' = NoHist
  /\ ret' = NoCall
  /\ UNCHANGED <<source, variant, probe, fs, artifact, runsLeft, exitCode,
                 posts, co, idx, matches, k, stats, lastRes, rw>>

\* getWordPressPosts: the query answers and the transformations start
GET_Live_Posts ==
  /\ run = "rss"
  /\ pc = "query"
  /\ \E outcome \in QueryOutcomes :
       \E answer \in {FetchWordPressPosts(outcome)} :
           /\ hist' = Queried(outcome, answer)
           /\ posts' = answer.posts
           /\ co' = [i \in 1..Len(answer.posts) |-> Begin(answer.posts[i])]
  /\ pc' = "transforming"
  /\ ret' = NoCall
  /\ UNCHANGED <<source, variant, feed, probe, fs, artifact, runsLeft, run,
                 exitCode, idx, matches, k, stats, lastRes, rw>>

\* a transformation threw: the handler rejects and the build stops
GET_Live_Reject ==
  /\ run = "rss"
  /\ pc = "transforming"
  /\ ~NoneThrew
  /\ pc' = "failed"
  /\ ret' = NoCall
  /\ UNCHANGED <<source, variant, feed, probe, fs, artifact, runsLeft, run,
                 exitCode, posts, co, idx, matches, k, stats, lastRes, rw,
                 hist>>

\* Promise.all resolved: the feed of the records just transformed
GET_Live_Respond ==
  /\ run = "rss"
  /\ pc = "transforming"
  /\ \A i \in 1..Len(co) : co[i].pc = "done"
  /\ feed' = [by |-> "GET",
              result |-> Items([i \in 1..Len(co) |-> Normalized(co[i])])]
  /\ run' = "render"
  /\ pc' = "idle"
  /\ ret' = NoCall
  /\ UNCHANGED <<source, variant, probe, fs, artifact, runsLeft, exitCode,
                 posts, co, idx, matches, k, stats, lastRes, rw, hist>>

NextRender ==
  \/ Render
  \/ GET_Static
  \/ GET_Live_Start
  \/ GET_Live_Posts
  \/ \E i \in 1..Len(co) : DI_FetchDone(i)
  \/ \E i \in 1..Len(co) : DI_PaletteDone(i)
  \/ GET_Live_Reject
  \/ GET_Live_Respond

SpecRender == InitRender /\ [][NextRender]_vars

(***************************************************************************)
(* Vocabulary of the properties.                                           *)
(***************************************************************************)
\* text holds an absolute http(s) URL of the private content origin
MentionsOrigin(text) ==
  \/ IncludesCI(text, WORDPRESS_URL)
  \/ IncludesCI(text, "https" \o From(WORDPRESS_URL, 5))

\* text holds an attribute called name: white space, the name, "="
HasAttribute(text, name) ==
  \E j \in 1..Len(text) :
    IsSpace(CharAt(text, j)) /\ HasAtCI(text, j + 1, name \o "=")

StrippedAttributes == {"srcset", "sizes", "width", "height"}

\* the host of u holds neither ".local" nor "localhost"
PublicHost(u) ==
  /\ IsAbsoluteUrl(u)
  /\ ~Includes(Host(u), ".local")
  /\ ~Includes(Host(u), "localhost")

\* a resolve call returned in the last step
Returned == ret.fn # "none"

\* a transformation of the running sync-data threw
SomeThrew == \E i \in 1..Len(co) : co[i].pc = "threw"

\* the first pass of the body rewriting is over
RewrittenOnce == run = "rewrite" /\ rw.pass = 1 /\ co[1].pc = "done"

\* the second pass, over the output of the first, is over
RewrittenTwice == run = "rewrite" /\ rw.pass = 2 /\ co[1].pc = "done"

\* path has the local form /images/<file>
IsLocalPath(path) == path # Null /\ HasAt(path, 1, "/images/")

\* the <file> of /images/<file>
FileOf(path) == From(path, 9)

\* downloadAndConvertImage returned, in the last step, a local path for an
\* eligible URL
ResolvedLocally ==
  /\ ret.fn = "downloadAndConvertImage"
  /\ TargetOf(ret.url).eligible
  /\ IsLocalPath(ret.res.localPath)

\* the value of a lowercase hexadecimal digit
DigitValue ==
  [c \in {"0", "1", "2", "3", "4", "5", "6", "7", "8", "9",
          "a", "b", "c", "d", "e", "f"} |->
     CASE c = "0" -> 0 [] c = "1" -> 1 [] c = "2" -> 2 [] c = "3" -> 3
       [] c = "4" -> 4 [] c = "5" -> 5 [] c = "6" -> 6 [] c = "7" -> 7
       [] c = "8" -> 8 [] c = "9" -> 9 [] c = "a" -> 10 [] c = "b" -> 11
       [] c = "c" -> 12 [] c = "d" -> 13 [] c = "e" -> 14 [] c = "f" -> 15]

\* color is '#' and six lowercase hexadecimal digits
IsHexColor(color) ==
  /\ Len(color) = 7
  /\ CharAt(color, 1) = "#"
  /\ \A i \in 2..7 : CharAt(color, i) \in DOMAIN DigitValue

\* the two digits of color from position i on, as a number
ChannelAt(color, i) ==
  16 * DigitValue[CharAt(color, i)] + DigitValue[CharAt(color, i + 1)]

\* the file names of the src="/images/<file>" attributes of a body
LocalSrcFiles(content) ==
  IF ~Truthy(content) \/ content = NonString THEN {}
  ELSE { Upto(From(content, j + 13), IndexOf(From(content, j + 13), Quote)) :
           j \in {i \in 1..Len(content) : HasAt(content, i, "src=\"/images/")} }

\* the files of public/images that the records of posts.json name
FilesNamed ==
  UNION { (IF IsLocalPath(artifact.posts[i].heroImage)
           THEN {FileOf(artifact.posts[i].heroImage)} ELSE {})
          \cup LocalSrcFiles(artifact.posts[i].content) :
            i \in 1..Len(artifact.posts) }

\* where the matches of the image pattern begin in a body
MatchStarts(body) == {j \in 1..Len(body) : ImageMatchEnd(body, j) # 0}

\* the i-th of them from the left
NthStart(body, i) ==
  CHOOSE m \in MatchStarts(body) :
    Cardinality({x \in MatchStarts(body) : x <= m}) = i

\* body with the match that begins at each of starts given the local path
\* of the result of the same rank, from the right to the left
RECURSIVE PutResults(_, _, _)
PutResults(body, starts, results) ==
  IF starts = {} THEN body
  ELSE LET m == Greatest(starts)
           q == ImageMatchEnd(body, m)
           path == results[Cardinality(starts)][2]
       IN  PutResults(Upto(body, m) \o "src=\""
                        \o (IF Truthy(path) THEN path ELSE "") \o "\""
                        \o From(body, q + 1),
                      starts \ {m}, results)

(***************************************************************************)
(* Properties.                                                             *)
(***************************************************************************)
\* C1: a run whose content query yields zero records ends with a non-zero
\* exit code and leaves src/data/posts.json as it was, in syncData and in
\* syncImages alike.
C1_ZeroRecordsAreFatal ==
  [][(pc' = "exited" /\ Len(posts') = 0)
       => (exitCode' = "1" /\ artifact' = artifact)]_vars

\* C2: the second of two successive resolve calls with the same eligible URL
\* makes no fetch and returns the local path of the first.  (Stated for a
\* first call that resolved the asset, the case the code comes closest to;
\* the colour, which the environment decides anew at each call, is not
\* compared.)
C2_SecondResolveIsCached ==
  (Returned /\ TargetOf(ret.url).eligible /\ ret.again /\ ret.prev.localPath # Null)
    => (ret.fetches = 0 /\ ret.res.localPath = ret.prev.localPath)

\* C3: for a URL whose host holds neither ".local" nor "localhost", whatever
\* its path holds, resolve returns the URL itself with a null colour, makes
\* no request and touches no file or directory.
C3_PublicHostPassesThrough ==
  (Returned /\ PublicHost(ret.url))
    => /\ ret.res = Result(ret.url, Null)
       /\ ret.fetches = 0
       /\ ~ret.wrote

\* C4: neither the hero path nor the body of a record that
\* transformWordPressPost returned holds an absolute URL of the private
\* content origin, in whatever attribute the body had it.
C4_NoOriginUrlSurvives ==
  \A i \in 1..Len(co) :
    co[i].pc = "done"
      => /\ ~MentionsOrigin(Normalized(co[i]).heroImage)
         /\ ~MentionsOrigin(Normalized(co[i]).content)

\* C5: an exception raised while one record is transformed or cached stays
\* with that record: the run still goes through every other record, persists
\* them (sync-data) and does not exit with a failure.
C5_RecordFailureIsContained ==
  /\ (run = "syncData" /\ pc = "exited" /\ SomeThrew)
       => (exitCode = "0" /\ artifact.exists)
  /\ (run = "syncImages" /\ pc = "exited" /\ Len(posts) > 0)
       => (exitCode = "0" /\ idx > Len(posts))

\* C6: the body rewriting applied to its own output returns that output
\* unchanged, for every body and every outcome of the asset resolution.
C6_RewritingIsIdempotent ==
  RewrittenTwice => co[1].content = rw.first

\* C7: when the download of an eligible asset succeeds and one of the two
\* cwebp invocations fails, downloadAndConvertImage returns the path of the
\* original-format file with a null colour, that file is in the cache, and
\* the run goes on with the next asset or record.
C7_TranscodeFailureDegrades ==
  (ret.fn = "downloadAndConvertImage" /\ ret.fetchOk /\ ret.cwebpFailed)
    => /\ ret.res.localPath # Null
       /\ ret.res.localPath = ImagesPath(TargetOf(ret.url).fileName)
       /\ ret.res.dominantColor = Null
       /\ Exists(fs.pub, TargetOf(ret.url).fileName)
       /\ Exists(fs.dist, TargetOf(ret.url).fileName)
       /\ fs.dist[TargetOf(ret.url).fileName] = RawBytes(ret.url)
       /\ pc \in {"scan", "inline", "hero"}
       /\ exitCode = "none"

\* a reachable case of C7: the second cwebp invocation failed for rocket.jpg
C7_Witness ==
  /\ ret.fn = "downloadAndConvertImage"
  /\ ret.url = UrlRocket
  /\ ret.fetchOk
  /\ ret.cwebpFailed
  /\ ret.transcodes = 2
  /\ ret.res.localPath = "/images/rocket.jpg"

\* C8: at most one record is being processed at any time: no two
\* transformations have a fetch or a palette extraction under way together.
C8_OneRecordAtATime ==
  \A i, j \in 1..Len(co) :
    (i < j /\ co[j].pc \in {"fetch", "palette"}) => co[i].pc \in {"done", "threw"}

\* C9: for a record whose featured image is an eligible .jpg URL with no
\* cache entry, when fetch and transcode succeed, one fetch is made, the
\* .webp is in both roots, the raw .jpg is in neither, the sidecar is
\* written, and the hero path of the normalized record is /images/<name>.webp.
C9_HeroEndToEnd ==
  /\ (/\ variant = 1
      /\ ret.fn = "downloadAndConvertImage"
      /\ ret.url = UrlRocket
      /\ ~ret.again
      /\ ret.fetchOk
      /\ ret.transcodes = 2
      /\ ~ret.cwebpFailed)
       => /\ ret.fetches = 1
          /\ Exists(fs.pub, "rocket.webp") /\ Exists(fs.dist, "rocket.webp")
          /\ ~Exists(fs.pub, "rocket.jpg") /\ ~Exists(fs.dist, "rocket.jpg")
          /\ Exists(fs.meta, "rocket.webp.json")
  /\ \A i \in 1..Len(artifact.posts) :
       (posts[i].hero = UrlRocket /\ artifact.posts[i].heroImage # Null)
         => artifact.posts[i].heroImage = "/images/rocket.webp"

\* C10: the output of the transformation holds no srcset, sizes, width or
\* height attribute, and every double-quoted src that pointed at an eligible
\* raster-image URL holds a local /images/<file> path.
C10_AttributesStrippedSrcLocal ==
  RewrittenOnce
    => /\ \A name \in StrippedAttributes : ~HasAttribute(co[1].content, name)
       /\ \A m \in 1..Len(co[1].matches) :
            TargetOf(co[1].matches[m][2]).eligible
              => ~Includes(co[1].content, co[1].matches[m][1])
       /\ ~Includes(co[1].content, "src=\"\"")

\* C11: a file name returned as a local /images/<file> path is present in
\* both mirrored roots.  (Stated as the mirroring: when the returned name is
\* in public/images it is in dist/images too; its presence in public/images
\* is C20.)
C11_ReturnedNameIsMirrored ==
  (ResolvedLocally /\ Exists(fs.pub, FileOf(ret.res.localPath)))
    => Exists(fs.dist, FileOf(ret.res.localPath))

\* C16: after downloadAndConvertImage returned a local path for an eligible
\* asset, the sidecar meta/<file>.json of that file name exists, on the
\* fresh-download, the cache-hit and the transcode-failure path, in both
\* variants.  (Stated for public/images/meta, the only meta directory the
\* code ever writes.)
C16_SidecarForEveryCachedAsset ==
  ResolvedLocally => Exists(fs.meta, SidecarName(FileOf(ret.res.localPath)))

\* C20: whenever downloadAndConvertImage returns a local /images/<file> path
\* for an eligible URL, a file of that name is in public/images when the call
\* returns, also when the URL ends in an extension other than jpg, jpeg or
\* png and the raw and the target file name coincide.
C20_ReturnedFileExists ==
  ResolvedLocally => Exists(fs.pub, FileOf(ret.res.localPath))

\* C12: fetchWordPressPosts never raises: on a transport error, a non-success
\* status or an errors payload it returns the empty list, and otherwise the
\* nodes of the response in their order.
C12_QueryNeverRaises ==
  hist.query # "none"
    => /\ ~hist.raised
       /\ posts = IF hist.query = "ok" THEN source ELSE << >>

\* a reachable case of C12: the source holds two posts and answers with an
\* errors payload
C12_Witness ==
  /\ hist.query = "errors"
  /\ Len(source) = 2
  /\ posts = << >>
  /\ ~hist.raised

\* C13: a sync-data run that ends with exit code 0 leaves in posts.json one
\* normalized record per fetched record, in the order fetched, each with the
\* slug of its source record; posts.json is written in one step only, the
\* last of the run, when every transformation has finished.
C13_ArtifactMirrorsTheFetch ==
  [][/\ (run = "syncData" /\ pc # "exited" /\ pc' = "exited" /\ exitCode' = "0")
          => /\ artifact'.exists
             /\ Len(artifact'.posts) = Len(posts)
             /\ \A i \in 1..Len(posts) :
                  /\ artifact'.posts[i] = Normalized(co[i])
                  /\ artifact'.posts[i].slug = posts[i].slug
     /\ (artifact' # artifact)
          => /\ run = "syncData"
             /\ pc' = "exited"
             /\ \A i \in 1..Len(co) : co[i].pc = "done"]_vars

\* a reachable case of C13: a finished sync-data run over two posts, the
\* second of which had its featured image downloaded
C13_Witness ==
  /\ run = "syncData"
  /\ pc = "exited"
  /\ exitCode = "0"
  /\ Len(posts) = 2
  /\ posts[1].slug # posts[2].slug
  /\ artifact.exists
  /\ Len(artifact.posts) = 2
  /\ artifact.posts[1].slug = posts[1].slug
  /\ artifact.posts[2].slug = posts[2].slug
  /\ IsLocalPath(artifact.posts[2].heroImage)

\* C14: each featured-image outcome goes in exactly one counter, the right
\* one: processed exactly when the URL was eligible and a local path came
\* back, skipped exactly when the URL was not eligible and passed through,
\* failed exactly when the path that came back is null.
C14_TallyIsRight ==
  [][(run = "syncImages" /\ pc = "hero" /\ pc' = "scan" /\ ret'.fn # "none")
       => /\ stats'.processed + stats'.skipped + stats'.failed
               = stats.processed + stats.skipped + stats.failed + 1
          /\ (stats'.processed = stats.processed + 1)
               <=> (TargetOf(ret'.url).eligible /\ IsLocalPath(ret'.res.localPath))
          /\ (stats'.skipped = stats.skipped + 1)
               <=> ~TargetOf(ret'.url).eligible
          /\ (stats'.failed = stats.failed + 1)
               <=> ret'.res.localPath = Null]_vars

\* C15: a run in which creating a cache directory or the data directory
\* raised an I/O error ends with a non-zero exit code.
C15_MkdirErrorIsFatal ==
  (pc = "exited" /\ hist.mkdirFailed) => exitCode = "1"

\* C17: for every channel value in 0..255 the string extractDominantColor
\* returns is '#' and six lowercase hexadecimal digits, two per channel,
\* zero-padded, encoding r, g, b in that order; a non-null colour that
\* downloadAndConvertImage returns has this form.
C17_ColorIsSixHexDigits ==
  /\ (run = "color" /\ pc # "stats" /\ probe.hex # Null)
       => /\ IsHexColor(probe.hex)
          /\ ChannelAt(probe.hex, 2) = probe.rgb[1]
          /\ ChannelAt(probe.hex, 4) = probe.rgb[2]
          /\ ChannelAt(probe.hex, 6) = probe.rgb[3]
  /\ (Returned /\ ret.res.dominantColor # Null)
       => IsHexColor(ret.res.dominantColor)

\* a reachable case of C17: channels 0, 9 and 171, the first two in need of
\* padding, returned by the resolve call
C17_Witness ==
  /\ probe.rgb = <<0, 9, 171>>
  /\ probe.hex = "#0009ab"
  /\ ret.fn = "downloadAndConvertImage"
  /\ ret.res.dominantColor = "#0009ab"

\* C18: the read interface of the site build (getStaticPosts,
\* getStaticPostsByCategory, getStaticPostBySlug and the RSS GET handler)
\* never queries the content source, and the feed a GET handler returns is
\* the feed of the records of posts.json.
C18_BuildNeverQueriesTheSource ==
  run \in {"render", "rss"}
    => /\ hist.query = "none"
       /\ feed.by = "GET" => feed.result = Items(artifact.posts)

\* C19: after any sequence of completed sync-data and sync-images runs on
\* the same source and cache tree, every hero path and inline src of
\* posts.json of the form /images/<file> names a file of public/images.
C19_ArtifactPathsExist ==
  pc = "exited" => \A name \in FilesNamed : Exists(fs.pub, name)

\* C21: when a file is already at the cache path of an eligible URL, resolve
\* makes no fetch and no transcode, returns /images/<file> and leaves the
\* file as it was.  (For downloadAndConvertImage the cache path is the .webp
\* name and the call is one step; for downloadImage it is the base name of
\* the URL, and with one transformation running a file that is there while
\* the fetch is under way was there when the call began.)
C21_CachedFileIsAuthoritative ==
  [][/\ (/\ ret'.fn = "downloadAndConvertImage"
          /\ ret' # ret
          /\ TargetOf(ret'.url).absolute
          /\ Exists(fs.pub, TargetOf(ret'.url).webpFileName))
          => /\ ret'.fetches = 0
             /\ ret'.transcodes = 0
             /\ ret'.res.localPath = ImagesPath(TargetOf(ret'.url).webpFileName)
             /\ Exists(fs'.pub, TargetOf(ret'.url).webpFileName)
             /\ fs'.pub[TargetOf(ret'.url).webpFileName]
                  = fs.pub[TargetOf(ret'.url).webpFileName]
     /\ (Len(co) = 1 /\ co[1].pc = "fetch")
          => ~Exists(fs.pub, TargetOf(co[1].url).fileName)]_vars

\* C22: two eligible URLs that differ never resolve to the same local path:
\* the file a resolve call returns was made from the URL of that call.
\* (Stated for URLs of a private host.)
C22_LocalPathNamesOwnAsset ==
  (/\ Returned
   /\ TargetOf(ret.url).eligible
   /\ ~PublicHost(ret.url)
   /\ IsLocalPath(ret.res.localPath)
   /\ Exists(fs.pub, FileOf(ret.res.localPath)))
    => fs.pub[FileOf(ret.res.localPath)].src = ret.url

\* C23: when the fetch of an asset answers with a non-success status or
\* throws, resolve returns the null result and does not raise: the
\* transformation that awaited it goes on, with a null hero path or an empty
\* inline src, and the loop of syncImages goes on.
C23_FetchFailureGivesNull ==
  [][/\ \A i \in 1..Len(co) :
          (/\ Transforming
           /\ co[i].pc = "fetch"
           /\ co'[i] # co[i]
           /\ co[i].post.content # NonString)
            => /\ co'[i].pc # "threw"
               /\ (ret'.fn = "downloadImage" /\ ~ret'.fetchOk)
                    => /\ ret'.res = NullResult
                       /\ co[i].target = "hero" => co'[i].hero = NullResult
                       /\ co[i].target = "inline"
                            => Includes(co'[i].content, "src=\"\"")
     /\ (ret'.fn = "downloadAndConvertImage" /\ ret'.fetches = 1 /\ ~ret'.fetchOk)
          => /\ ret'.res = NullResult
             /\ pc' \in {"scan", "inline", "hero"}
             /\ exitCode' = "none"]_vars

\* a reachable case of C23: sync-data ended well and wrote the record of
\* the rocket post, whose two fetches failed
C23_Witness ==
  /\ run = "syncData"
  /\ pc = "exited"
  /\ exitCode = "0"
  /\ ~hist.mkdirFailed
  /\ Len(posts) = 1
  /\ posts[1].hero = UrlRocket
  /\ artifact.exists
  /\ artifact.posts[1].heroImage = Null
  /\ Includes(artifact.posts[1].content, "src=\"\"")

RunTerminates == (pc # "idle") ~> (pc = "exited")

\* no record is taken twice: the loop of syncImages only moves forward and
\* a transformation that returned is not run again
NoRecordRevisited ==
  [][/\ idx' \in {0, idx, idx + 1}
     /\ \A i \in 1..Len(co) :
          (Len(co') = Len(co) /\ co[i].pc = "done") => co'[i] = co[i]]_vars

\* C25: a sync run ends having processed every fetched record, each once:
\* when the script has exited, the loop of syncImages is past the last
\* record, and every transformation of syncData has returned.
C25_EveryRecordProcessedOnce ==
  pc = "exited"
    => /\ run = "syncImages" => (Len(posts) = 0 \/ idx = Len(posts) + 1)
       /\ run = "syncData" => \A i \in 1..Len(co) : co[i].pc = "done"

\* C26: attribute stripping leaves attributes whose names merely end in one
\* of the four words intact: a data-width="5" of the body is still in the
\* output of the transformation.
C26_OnlyWholeAttributesRemoved ==
  (RewrittenOnce /\ Includes(rw.input, "data-width=\"5\""))
    => Includes(co[1].content, "data-width=\"5\"")

\* the records of the syncImages loop whose featured image has been handled
HandledRecords ==
  IF pc = "hero" THEN idx - 1
  ELSE IF idx > Len(posts) THEN Len(posts) ELSE idx

\* the three counters together
Counted == stats.processed + stats.skipped + stats.failed

\* C27: in a syncImages run, processed + skipped + failed is the number of
\* handled records that carry a featured image; a step changes no counter
\* by more than one, and resolving an inline image changes none.
C27_CountersTallyFeaturedImages ==
  [][run' = "syncImages" /\ pc' \in {"hero", "scan", "inline", "exited"}
       => /\ Counted' = Cardinality({i \in 1..HandledRecords' :
                                       Truthy(posts'[i].hero)})
          /\ stats'.processed - stats.processed \in {0, 1}
          /\ stats'.skipped - stats.skipped \in {0, 1}
          /\ stats'.failed - stats.failed \in {0, 1}
          /\ Counted' - Counted \in {0, 1}
          /\ pc = "inline" => stats' = stats]_vars

\* a reachable case of C27: a run over a record without a featured image
\* and a record with one, inline images resolved, one counter at 1
C27_Witness ==
  /\ run = "syncImages"
  /\ pc = "exited"
  /\ Len(posts) = 2
  /\ posts[1].hero = Null
  /\ Truthy(posts[2].hero)
  /\ idx = 3
  /\ stats.failed = 1
  /\ Counted = 1

\* downloadAndConvertImage took, in this step, the path of the cached file
\* for an asset whose .webp was in public/images
CacheHitStep ==
  /\ ret'.fn = "downloadAndConvertImage"
  /\ ret' # ret
  /\ TargetOf(ret'.url).eligible
  /\ Exists(fs.pub, TargetOf(ret'.url).webpFileName)
  /\ ret'.fetches = 0

\* C28: on the cache-hit path a sidecar that records a colour is never
\* replaced by one recording null: the sidecars change only when the colour
\* extracted from the cached file is not null, and then only the sidecar of
\* that file, to that colour.
C28_CacheHitKeepsColour ==
  [][CacheHitStep
       => LET sc == SidecarName(TargetOf(ret'.url).webpFileName)
          IN  /\ (Exists(fs.meta, sc) /\ fs.meta[sc].dominantColor # Null)
                   => /\ Exists(fs'.meta, sc)
                      /\ fs'.meta[sc].dominantColor # Null
              /\ ret'.res.dominantColor = Null => fs'.meta = fs.meta
              /\ fs'.meta # fs.meta
                   => fs'.meta = WriteFile(fs.meta, sc,
                                           Sidecar(ret'.res.dominantColor))]_vars

\* a reachable case of C28: the cached file was returned with a null colour
\* while its sidecar records a colour
C28_Witness ==
  /\ ret.fn = "downloadAndConvertImage"
  /\ ret.fetches = 0
  /\ TargetOf(ret.url).eligible
  /\ ret.res.localPath = ImagesPath(TargetOf(ret.url).webpFileName)
  /\ ret.res.dominantColor = Null
  /\ variant = 1
  /\ Exists(fs.meta, SidecarName(TargetOf(ret.url).webpFileName))
  /\ fs.meta[SidecarName(TargetOf(ret.url).webpFileName)].dominantColor # Null

\* C29: a resolve call whose fetch failed (a status that is not ok, or a
\* thrown error) leaves the cache tree as it was: the directories, the
\* files of both roots and the sidecars are those of before the call's step.
C29_FailedFetchLeavesTreeAlone ==
  [][(ret'.fn # "none" /\ ret'.fetches = 1 /\ ~ret'.fetchOk) => fs' = fs]_vars

\* a reachable case of C29: a resolve call returned after a failed fetch
\* while assets of earlier calls are in the tree
C29_Witness ==
  /\ ret.fn # "none"
  /\ ret.fetches = 1
  /\ ~ret.fetchOk
  /\ ret.res = NullResult
  /\ fs.pub # << >>
  /\ fs.dirs # {}

=============================================================================
